---- MODULE Spec2Model ----
(***************************************************************************)
(* Model of include/ignition/math/Filter.hh: the Filter<T> base class, the *)
(* one-pole low-pass OnePole<T> and the second-order low-pass BiQuad<T>,   *)
(* with their Vector3 specialisations (one vector component is modelled,   *)
(* the arithmetic is componentwise).                                       *)
(*                                                                         *)
(* Arithmetic.  The coefficients are C++ doubles and every operation of    *)
(* the source rounds its exact result to the nearest representable value   *)
(* (ties to even).  A value is modelled by the integer number of           *)
(* 2^-FracBits units it holds; it is representable when its magnitude is   *)
(* s * 2^j with s < 2^Prec, which is a binary floating-point format with   *)
(* a Prec-bit significand and gradual underflow at 2^-FracBits (a double   *)
(* has a 53-bit significand).  Add, Sub, Mul and Div compute the exact     *)
(* result and round it once, as the hardware does.                         *)
(***************************************************************************)
EXTENDS Integers, Sequences, FiniteSets, TLC

\* Significand width of the modelled floating-point format.
Prec == 8

\* Number of fractional bits: the smallest positive value is 2^-FracBits.
FracBits == 12

\* Bound on the number of calls made on one filter instance.
MaxCalls == 4

\* Bound on the number of calls made before a constant is fed.
SetupCalls == 2

\* Bound on the number of calls counted while a constant is fed.
SettleCalls == 32

RECURSIVE Pow2(_)
Pow2(e) == IF e = 0 THEN 1 ELSE 2 * Pow2(e - 1)

\* The value 1.0.
Unit == Pow2(FracBits)

Abs(i) == IF i < 0 THEN -i ELSE i

Sign(i) == IF i < 0 THEN -1 ELSE 1

\* 2^j for the least j >= 0 at which a < lim * 2^j.
RECURSIVE Scale(_, _)
Scale(a, lim) == IF a < lim THEN 1 ELSE 2 * Scale(a, 2 * lim)

\* Nearest integer to a / dd (a >= 0, dd > 0), ties to even.
NearestEven(a, dd) ==
  LET fl == a \div dd
      rem == a % dd
  IN  IF 2 * rem > dd THEN fl + 1
      ELSE IF 2 * rem < dd THEN fl
      ELSE IF fl % 2 = 0 THEN fl ELSE fl + 1

\* The representable value nearest to the exact quotient num / den (den > 0):
\* the quotient is scaled by the power of two that makes its significand fit
\* Prec bits, rounded to an integer and scaled back.
RoundRat(num, den) ==
  LET a == Abs(num)
      sc == Scale(a, Pow2(Prec) * den)
  IN  Sign(num) * NearestEven(a, den * sc) * sc

\* double operator+, operator-, operator*, operator/ .
Add(x, y) == RoundRat(x + y, 1)

Sub(x, y) == RoundRat(x - y, 1)

Mul(x, y) == RoundRat(x * y, Unit)

Div(x, y) == RoundRat(Sign(y) * x * Unit, Abs(y))

\* The double nearest to the decimal literal num / den.
Lit(num, den) == RoundRat(num * Unit, den)


(***************************************************************************)
(* Inputs.                                                                 *)
(***************************************************************************)

\* Sample values passed to SetValue and Process: 0, 1.0 and 0.4375.
Vals == {0, Unit, 7 * (Unit \div 16)}

\* (cutoff, sample rate) pairs passed to the constructors and to SetFc of
\* each family.  A BiQuad is given cutoffs whose k * k lies well above the
\* rounding unit of the modelled format, as any cutoff a double resolves does.
OnePoleFcFs == {<<10, 1000>>, <<100, 1000>>, <<250, 1000>>}

BiQuadFcFs == {<<100, 1000>>, <<200, 1000>>, <<250, 1000>>}

FcFs(family) == IF family = "BiQuad" THEN BiQuadFcFs ELSE OnePoleFcFs

\* Q factors passed to the three-argument SetFc: 0.5 and 1.0.
Qs == {Unit \div 2, Unit}

\* What the uninitialised double members a0, a1, a2, b0, b1 of a BiQuad may
\* hold: all zero (the storage was zeroed), or leftovers of earlier use.
IndeterminateCoeffs ==
  {<<0, 0, 0, 0, 0>>,
   <<Unit \div 4, Unit \div 4, Unit \div 4, Unit \div 4, Unit \div 4>>,
   <<Unit \div 4, 0, Unit \div 2, 0, -(Unit \div 4)>>,
   <<0, Unit \div 2, 0, Unit, Unit \div 4>>}

\* What the uninitialised members y0, x1, x2, y1, y2 hold when T is double.
IndeterminateState ==
  {<<0, 0, 0, 0, 0>>,
   <<Unit, Unit, Unit, Unit, Unit>>,
   <<Unit \div 2, 0, Unit, 0, Unit \div 4>>}

\* exp(-2.0 * M_PI * _fc / _fs), the library's value rounded to a double.
ExpNeg2PiRatio(fc, fs) ==
  CASE fc * 100 = fs -> Lit(9391, 10000)
    [] fc * 10 = fs  -> Lit(5335, 10000)
    [] fc * 4 = fs   -> Lit(2079, 10000)

\* tan(M_PI * _fc / _fs), the library's value rounded to a double.
TanPiRatio(fc, fs) ==
  CASE fc * 10 = fs -> Lit(3249, 10000)
    [] fc * 5 = fs  -> Lit(7265, 10000)
    [] fc * 4 = fs  -> Lit(10000, 10000)

(***************************************************************************)
(* The object.  One record holds the members of the instance: y0 of        *)
(* Filter<T>, a0 and b1 of OnePole<T>, a0..b2 and x1, x2, y1, y2 of        *)
(* BiQuad<T>.  family is the dynamic type's template; members the family   *)
(* does not declare are kept at 0 and never touched.                       *)
(***************************************************************************)

Families == {"OnePole", "BiQuad"}

\* Filter<T>::SetValue
Filter_SetValue(f, val) == [f EXCEPT !.y0 = val]

\* Filter<T>::GetValue
Filter_GetValue(f) == f.y0

\* OnePole<T>::SetFc with a slip: a0 is b1 where it should be 1.0 - b1.
OnePole_SetFc_GainNotComplement(f, fc, fs) ==
  LET nb1 == ExpNeg2PiRatio(fc, fs)
  IN  [f EXCEPT !.b1 = nb1, !.a0 = nb1]

\* OnePole<T>::SetFc with a slip: the retained output is cleared as well.
OnePole_SetFc_ClearsOutput(f, fc, fs) ==
  LET nb1 == ExpNeg2PiRatio(fc, fs)
  IN  [f EXCEPT !.b1 = nb1, !.a0 = Sub(Unit, nb1), !.y0 = 0]

\* OnePole<T>::SetFc
OnePole_SetFc(f, fc, fs) ==
  LET nb1 == ExpNeg2PiRatio(fc, fs)
  IN  [f EXCEPT !.b1 = nb1, !.a0 = Sub(Unit, nb1)]

\* OnePole<T>::Process with a slip: the two gains are exchanged.
OnePole_Process_GainsSwapped(f, x) ==
  [f EXCEPT !.y0 = Add(Mul(f.b1, x), Mul(f.a0, f.y0))]

\* OnePole<T>::Process
OnePole_Process(f, x) ==
  [f EXCEPT !.y0 = Add(Mul(f.a0, x), Mul(f.b1, f.y0))]

\* BiQuad<T>::SetFc(double, double, double) with a slip: a1 is a0 where it
\* should be 2 * a0.
BiQuad_SetFc3_A1Single(f, fc, fs, q) ==
  LET k == TanPiRatio(fc, fs)
      kk == Mul(k, k)
      kQuadDenom == Add(Add(kk, Div(k, q)), Unit)
      na0 == Div(kk, kQuadDenom)
  IN  [f EXCEPT !.a0 = na0,
                !.a1 = na0,
                !.a2 = na0,
                !.b0 = Unit,
                !.b1 = Div(Mul(2 * Unit, Sub(kk, Unit)), kQuadDenom),
                !.b2 = Div(Add(Sub(kk, Div(k, q)), Unit), kQuadDenom)]

\* BiQuad<T>::SetFc(double, double, double) with a slip: b0 is not assigned.
BiQuad_SetFc3_NoB0(f, fc, fs, q) ==
  LET k == TanPiRatio(fc, fs)
      kk == Mul(k, k)
      kQuadDenom == Add(Add(kk, Div(k, q)), Unit)
      na0 == Div(kk, kQuadDenom)
  IN  [f EXCEPT !.a0 = na0,
                !.a1 = Mul(2 * Unit, na0),
                !.a2 = na0,
                !.b1 = Div(Mul(2 * Unit, Sub(kk, Unit)), kQuadDenom),
                !.b2 = Div(Add(Sub(kk, Div(k, q)), Unit), kQuadDenom)]

\* BiQuad<T>::SetFc(double, double, double) with a slip: the numerator of b2
\* adds k / q where it should subtract it.
BiQuad_SetFc3_B2Sign(f, fc, fs, q) ==
  LET k == TanPiRatio(fc, fs)
      kk == Mul(k, k)
      kQuadDenom == Add(Add(kk, Div(k, q)), Unit)
      na0 == Div(kk, kQuadDenom)
  IN  [f EXCEPT !.a0 = na0,
                !.a1 = Mul(2 * Unit, na0),
                !.a2 = na0,
                !.b0 = Unit,
                !.b1 = Div(Mul(2 * Unit, Sub(kk, Unit)), kQuadDenom),
                !.b2 = Div(Add(Add(kk, Div(k, q)), Unit), kQuadDenom)]

\* BiQuad<T>::SetFc(double, double, double)
BiQuad_SetFc3(f, fc, fs, q) ==
  LET k == TanPiRatio(fc, fs)
      kk == Mul(k, k)
      kQuadDenom == Add(Add(kk, Div(k, q)), Unit)
      na0 == Div(kk, kQuadDenom)
  IN  [f EXCEPT !.a0 = na0,
                !.a1 = Mul(2 * Unit, na0),
                !.a2 = na0,
                !.b0 = Unit,
                !.b1 = Div(Mul(2 * Unit, Sub(kk, Unit)), kQuadDenom),
                !.b2 = Div(Add(Sub(kk, Div(k, q)), Unit), kQuadDenom)]

\* The Butterworth Q factor, 0.7071, in place of 0.5.
DefaultQ_Butterworth == Lit(7071, 10000)

\* The Q factor the two-argument SetFc passes on: 0.5.
DefaultQ == Unit \div 2

\* BiQuad<T>::SetFc(double, double)
BiQuad_SetFc(f, fc, fs) == BiQuad_SetFc3(f, fc, fs, DefaultQ)

\* BiQuad<T>::SetValue with a slip: x2 is left out of the assignment chain.
BiQuad_SetValue_KeepsX2(f, val) ==
  [f EXCEPT !.y0 = val, !.y1 = val, !.y2 = val, !.x1 = val]

\* BiQuad<T>::SetValue
BiQuad_SetValue(f, val) ==
  [f EXCEPT !.y0 = val, !.y1 = val, !.y2 = val, !.x1 = val, !.x2 = val]

\* BiQuad<T>::Process with a slip: x1 is overwritten before it is shifted.
BiQuad_Process_ShiftsLate(f, x) ==
  LET out == Sub(Sub(Add(Add(Mul(f.a0, x), Mul(f.a1, f.x1)),
                         Mul(f.a2, f.x2)),
                     Mul(f.b1, f.y1)),
                 Mul(f.b2, f.y2))
  IN  [f EXCEPT !.y0 = out, !.x1 = x, !.x2 = x, !.y2 = f.y1, !.y1 = out]

\* BiQuad<T>::Process
BiQuad_Process(f, x) ==
  LET out == Sub(Sub(Add(Add(Mul(f.a0, x), Mul(f.a1, f.x1)),
                         Mul(f.a2, f.x2)),
                     Mul(f.b1, f.y1)),
                 Mul(f.b2, f.y2))
  IN  [f EXCEPT !.y0 = out, !.x2 = f.x1, !.x1 = x, !.y2 = f.y1, !.y1 = out]

\* Virtual dispatch: the final overrider of each virtual member function.
Virtual_SetValue(f, val) ==
  IF f.family = "BiQuad" THEN BiQuad_SetValue(f, val)
  ELSE Filter_SetValue(f, val)

Virtual_SetFc(f, fc, fs) ==
  IF f.family = "BiQuad" THEN BiQuad_SetFc(f, fc, fs)
  ELSE OnePole_SetFc(f, fc, fs)

\* Process is looked up in the static type, which is the family here.
Family_Process(f, x) ==
  IF f.family = "BiQuad" THEN BiQuad_Process(f, x)
  ELSE OnePole_Process(f, x)

(***************************************************************************)
(* State.                                                                  *)
(*   f     the filter instance (its members)                               *)
(*   ctor  the constructor that built it                                   *)
(*   op    the member function called last ("ctor" right after building),  *)
(*   arg   its value argument, ret its return value                        *)
(*   cfg   the arguments of the last SetFc, <<>> while none was made       *)
(*   hist  the <<input, output>> pairs of the Process calls made since     *)
(*         the state was last set (by the constructor or SetValue), the    *)
(*         latest first, at most two                                       *)
(*   feed  <<v, s>> once the caller feeds the constant v on every call,    *)
(*         s being the output when the feeding began; <<>> before          *)
(*   n     the number of calls made, counted up to MaxCalls; once a        *)
(*         constant is fed, the number of calls of the feeding loop,       *)
(*         counted up to SettleCalls                                       *)
(***************************************************************************)
VARIABLES f, ctor, op, arg, ret, cfg, hist, feed, n

vars == <<f, ctor, op, arg, ret, cfg, hist, feed, n>>

\* Default member initialisers of OnePole<T>: a0 = 0, b1 = 0; y0 is T().
OnePole_Default(v0) ==
  [family |-> "OnePole", y0 |-> v0, a0 |-> 0, b1 |-> 0,
   a1 |-> 0, a2 |-> 0, b0 |-> 0, b2 |-> 0,
   x1 |-> 0, x2 |-> 0, y1 |-> 0, y2 |-> 0]

\* Members of BiQuad<T> after default initialisation: the declaration
\* "double a0, a1, a2, b0, b1, b2 = 0;" initialises b2 alone.
BiQuad_Default(c, t) ==
  [family |-> "BiQuad", y0 |-> t[1], a0 |-> c[1], a1 |-> c[2], a2 |-> c[3],
   b0 |-> c[4], b1 |-> c[5], b2 |-> 0,
   x1 |-> t[2], x2 |-> t[3], y1 |-> t[4], y2 |-> t[5]]

\* The eight ways to construct an instance.  T is double for the templates
\* (its default initialisation leaves the value indeterminate) and
\* Vector3d for the specialisations, which set the value to zero.
Ctors == {"OnePole()", "OnePole(fc,fs)", "OnePoleVector3()",
          "OnePoleVector3(fc,fs)", "BiQuad()", "BiQuad(fc,fs)",
          "BiQuadVector3()", "BiQuadVector3(fc,fs)"}

Construct(name, c, t, fc, fs) ==
  CASE name = "OnePole()" -> OnePole_Default(t[1])
    [] name = "OnePole(fc,fs)" -> OnePole_SetFc(OnePole_Default(t[1]), fc, fs)
    [] name = "OnePoleVector3()" -> Virtual_SetValue(OnePole_Default(0), 0)
    [] name = "OnePoleVector3(fc,fs)" ->
         Virtual_SetValue(OnePole_SetFc(OnePole_Default(0), fc, fs), 0)
    [] name = "BiQuad()" -> BiQuad_Default(c, t)
    [] name = "BiQuad(fc,fs)" -> BiQuad_SetFc(BiQuad_Default(c, t), fc, fs)
    [] name = "BiQuadVector3()" ->
         Virtual_SetValue(BiQuad_Default(c, <<0, 0, 0, 0, 0>>), 0)
    [] name = "BiQuadVector3(fc,fs)" ->
         Virtual_SetValue(
           BiQuad_SetFc(BiQuad_Default(c, <<0, 0, 0, 0, 0>>), fc, fs), 0)

FamilyOf(name) ==
  IF name \in {"OnePole()", "OnePole(fc,fs)", "OnePoleVector3()",
               "OnePoleVector3(fc,fs)"}
  THEN "OnePole" ELSE "BiQuad"

TakesFcFs(name) ==
  name \in {"OnePole(fc,fs)", "OnePoleVector3(fc,fs)", "BiQuad(fc,fs)",
            "BiQuadVector3(fc,fs)"}

Init ==
  /\ ctor \in Ctors
  /\ \E c \in IndeterminateCoeffs, t \in IndeterminateState,
        p \in FcFs(FamilyOf(ctor)) :
       /\ f = Construct(ctor, c, t, p[1], p[2])
       /\ cfg = IF TakesFcFs(ctor) THEN p ELSE <<>>
  /\ op = "ctor"
  /\ arg = 0
  /\ ret = 0
  /\ hist = <<>>
  /\ feed = <<>>
  /\ n = 0

Count ==
  LET cap == IF feed = <<>> THEN MaxCalls ELSE SettleCalls
  IN  n' = IF n < cap THEN n + 1 ELSE n

\* f.SetValue(v), called on the object or through a Filter<T> reference.
SetValue(v, through) ==
  /\ n < MaxCalls
  /\ feed = <<>>
  /\ f' = Virtual_SetValue(f, v)
  /\ op' = through
  /\ arg' = v
  /\ ret' = 0
  /\ hist' = <<>>
  /\ Count
  /\ UNCHANGED <<ctor, cfg, feed>>

\* f.GetValue()
GetValue ==
  /\ n < MaxCalls
  /\ feed = <<>>
  /\ op' = "GetValue"
  /\ arg' = 0
  /\ ret' = Filter_GetValue(f)
  /\ Count
  /\ UNCHANGED <<f, ctor, cfg, hist, feed>>

\* f.SetFc(fc, fs)
SetFc(fc, fs) ==
  /\ n < MaxCalls
  /\ feed = <<>>
  /\ f' = Virtual_SetFc(f, fc, fs)
  /\ op' = "SetFc"
  /\ arg' = 0
  /\ ret' = 0
  /\ cfg' = <<fc, fs>>
  /\ Count
  /\ UNCHANGED <<ctor, hist, feed>>

\* f.SetFc(fc, fs, q), which BiQuad alone declares.
SetFc3(fc, fs, q) ==
  /\ n < MaxCalls
  /\ feed = <<>>
  /\ f.family = "BiQuad"
  /\ f' = BiQuad_SetFc3(f, fc, fs, q)
  /\ op' = "SetFc3"
  /\ arg' = 0
  /\ ret' = 0
  /\ cfg' = <<fc, fs, q>>
  /\ Count
  /\ UNCHANGED <<ctor, hist, feed>>

\* f.Process(x); once the caller feeds a constant, x is that constant and
\* the calls go on without bound.
Process(x) ==
  /\ IF feed = <<>> THEN n < MaxCalls ELSE x = feed[1]
  /\ f' = Family_Process(f, x)
  /\ op' = "Process"
  /\ arg' = x
  /\ ret' = f'.y0
  /\ hist' = <<<<x, f'.y0>>>> \o SubSeq(hist, 1, IF hist = <<>> THEN 0 ELSE 1)
  /\ Count
  /\ UNCHANGED <<ctor, cfg, feed>>

Next ==
  \/ \E v \in Vals : SetValue(v, "SetValue")
  \/ \E v \in Vals : SetValue(v, "Filter::SetValue")
  \/ GetValue
  \/ \E p \in FcFs(f.family) : SetFc(p[1], p[2])
  \/ \E p \in BiQuadFcFs, q \in Qs : SetFc3(p[1], p[2], q)
  \/ \E x \in Vals : Process(x)

Spec == Init /\ [][Next]_vars

\* The caller decides to feed the constant v to a configured filter from
\* now on.
StartFeed(v) ==
  /\ feed = <<>>
  /\ cfg # <<>>
  /\ n <= SetupCalls
  /\ feed' = <<v, f.y0>>
  /\ op' = "StartFeed"
  /\ arg' = 0
  /\ ret' = 0
  /\ n' = 0
  /\ UNCHANGED <<f, ctor, cfg, hist>>

NextFeed ==
  \/ Next
  \/ \E v \in Vals : StartFeed(v)

SpecFeed == Init /\ [][NextFeed]_vars

(***************************************************************************)
(* Properties.                                                             *)
(***************************************************************************)

Coeffs(g) == <<g.a0, g.a1, g.a2, g.b0, g.b1, g.b2>>

History(g) == <<g.x1, g.x2, g.y1, g.y2>>

SetValueOps == {"SetValue", "Filter::SetValue"}

TypeOK ==
  /\ n \in 0..(IF feed = <<>> THEN MaxCalls ELSE SettleCalls)
  /\ f.family \in Families
  /\ ctor \in Ctors
  /\ Len(hist) <= 2

\* C1: right after SetValue(v), made on the object or through Filter<T>,
\* GetValue() is v; on a BiQuad x1, x2, y1 and y2 are v as well, and a
\* Process(x) that follows returns a0*x + a1*v + a2*v - b1*v - b2*v.
C1_SetValueResets ==
  [][ /\ op' \in SetValueOps =>
           /\ Filter_GetValue(f') = arg'
           /\ f.family = "BiQuad" => History(f') = <<arg', arg', arg', arg'>>
      /\ (op \in SetValueOps /\ op' = "Process" /\ f.family = "BiQuad") =>
           ret' = Sub(Sub(Add(Add(Mul(f.a0, arg'), Mul(f.a1, arg)),
                              Mul(f.a2, arg)),
                          Mul(f.b1, arg)),
                      Mul(f.b2, arg)) ]_vars

\* A BiQuadVector3 that was set to 1.0 and then processed the sample 0 once.
C1_Witness ==
  /\ ctor = "BiQuadVector3(fc,fs)"
  /\ op = "Process"
  /\ Len(hist) = 1
  /\ arg = 0
  /\ f.x2 = Unit
  /\ f.y2 = Unit

\* C2: BiQuad Process(x) returns a0*x + a1*x1 + a2*x2 - b1*y1 - b2*y2 of the
\* history before the call, then x2 is the old x1, x1 is x, y2 is the old y1,
\* y1 and GetValue() are the returned value; after two Process calls x1, x2
\* are the last two inputs and y1, y2 the last two outputs.
C2_DirectFormI ==
  /\ [][ (op' = "Process" /\ f.family = "BiQuad") =>
           /\ ret' = Sub(Sub(Add(Add(Mul(f.a0, arg'), Mul(f.a1, f.x1)),
                                 Mul(f.a2, f.x2)),
                             Mul(f.b1, f.y1)),
                         Mul(f.b2, f.y2))
           /\ f'.x2 = f.x1
           /\ f'.x1 = arg'
           /\ f'.y2 = f.y1
           /\ f'.y1 = ret'
           /\ Filter_GetValue(f') = ret' ]_vars
  /\ [](f.family = "BiQuad" /\ Len(hist) = 2 =>
          /\ f.x1 = hist[1][1] /\ f.x2 = hist[2][1]
          /\ f.y1 = hist[1][2] /\ f.y2 = hist[2][2])

\* A BiQuad after three Process calls whose last two inputs differ.
C2_Witness ==
  /\ f.family = "BiQuad"
  /\ op = "Process"
  /\ n >= 3
  /\ Len(hist) = 2
  /\ hist[1][1] # hist[2][1]
  /\ hist[1][2] # hist[2][2]

\* C3: OnePole Process(x) returns gainIn*x + feedbackGain*output_prev, where
\* output_prev is what GetValue() returned before the call, and GetValue()
\* afterwards is the returned value.
C3_OnePoleProcess ==
  [][ (op' = "Process" /\ f.family = "OnePole") =>
        /\ ret' = Add(Mul(f.a0, arg'), Mul(f.b1, Filter_GetValue(f)))
        /\ Filter_GetValue(f') = ret' ]_vars

\* A configured OnePole whose Process moved the output off both the input
\* and the previous output.
C3_Witness ==
  /\ f.family = "OnePole"
  /\ op = "Process"
  /\ cfg # <<>>
  /\ n >= 3
  /\ ret # arg
  /\ ret # 0

\* The spacing of the doubles just above 1.0.
UlpOne == Unit \div Pow2(Prec - 1)

\* C4 as stated: on a configured BiQuad the C++ expressions a0 + a1 + a2
\* and 1 + b1 + b2 are equal.
C4_DcGainExact ==
  (f.family = "BiQuad" /\ cfg # <<>>) =>
    Add(Add(f.a0, f.a1), f.a2) = Add(Add(Unit, f.b1), f.b2)

\* C4 amended: on a configured BiQuad a0 + a1 + a2 and 1 + b1 + b2 differ by
\* no more than rounding error, 8 units in the last place of 1.0.
C4_DcGainRounded ==
  (f.family = "BiQuad" /\ cfg # <<>>) =>
    Abs(Add(Add(f.a0, f.a1), f.a2) - Add(Add(Unit, f.b1), f.b2)) <= 8 * UlpOne

\* A BiQuad configured by the three-argument SetFc with Q = 1.0.
C4_Witness ==
  /\ f.family = "BiQuad"
  /\ op = "SetFc3"
  /\ Len(cfg) = 3
  /\ cfg[3] = Unit
  /\ f.a0 > 0

\* C7: the two-argument configuration of a BiQuad (constructor or SetFc)
\* yields the coefficients of SetFc(fc, fs, 0.5), and SetFc(fc, fs) repeated
\* with the arguments of the last configuration leaves them as they are.
C7_DefaultQ ==
  /\ [][ (op' = "SetFc" /\ f.family = "BiQuad") =>
           /\ Coeffs(f') =
                Coeffs(BiQuad_SetFc3(f, cfg'[1], cfg'[2], Unit \div 2))
           /\ cfg' = cfg => Coeffs(f') = Coeffs(f) ]_vars
  /\ [](op = "ctor" /\ ctor \in {"BiQuad(fc,fs)", "BiQuadVector3(fc,fs)"} =>
          Coeffs(f) = Coeffs(BiQuad_SetFc3(f, cfg[1], cfg[2], Unit \div 2)))

\* A BiQuad built with (fc, fs), used, and configured again with the same
\* (fc, fs).
C7_Witness ==
  /\ ctor = "BiQuad(fc,fs)"
  /\ op = "SetFc"
  /\ n >= 3
  /\ Len(hist) = 1
  /\ f.y0 # 0

\* C8 as stated: a bare-constructed filter has every coefficient zero, and
\* one constructed with (fc, fs) has the coefficients SetFc computes.
C8_BareCoefficientsZero ==
  op = "ctor" =>
    IF TakesFcFs(ctor)
    THEN Coeffs(f) = Coeffs(Virtual_SetFc(f, cfg[1], cfg[2]))
    ELSE Coeffs(f) = <<0, 0, 0, 0, 0, 0>>

C10_Frames ==
  /\ [][ /\ op' \in {"SetFc", "SetFc3"} =>
              (f'.y0 = f.y0 /\ History(f') = History(f))
         /\ op' = "GetValue" => f' = f
         /\ op' \in SetValueOps \cup {"Process"} => Coeffs(f') = Coeffs(f)
       ]_vars
  /\ [](op = "ctor" /\
        ctor \in {"OnePoleVector3(fc,fs)", "BiQuadVector3(fc,fs)"} =>
          Coeffs(f) = Coeffs(Virtual_SetFc(f, cfg[1], cfg[2])))

\* A filter whose output is not zero and that was configured last.
C10_Witness ==
  /\ op \in {"SetFc", "SetFc3"}
  /\ n >= 3
  /\ f.y0 # 0
  /\ Len(hist) = 2

Max(i, j) == IF i < j THEN j ELSE i

Feeding == feed # <<>>

\* The output and, on a BiQuad, the whole history equal v.
AllEqual(g, v) ==
  /\ g.y0 = v
  /\ g.family = "BiQuad" => History(g) = <<v, v, v, v>>

\* The denominator of the gain at frequency zero, as the stored coefficients
\* give it: 1 - feedbackGain for a OnePole, 1 + b1 + b2 for a BiQuad.
DcDenominator(g) ==
  IF g.family = "BiQuad" THEN Unit + g.b1 + g.b2 ELSE Unit - g.b1

\* The configurations the amended C5 speaks of: the stored denominator is
\* at least 8 ulp(1.0), and a BiQuad has fc <= fs / 4 and 0.5 <= Q <= 1.
WellConditioned(g, c) ==
  /\ c # <<>>
  /\ DcDenominator(g) >= 8 * UlpOne
  /\ g.family = "BiQuad" =>
       /\ 4 * c[1] <= c[2]
       /\ Len(c) = 3 => (Unit \div 2 <= c[3] /\ c[3] <= Unit)

\* The distance from v that rounding can hold the output at:
\* 8 ulp(1.0) * max(|v|, 1) / DcDenominator.
SteadyTol(g, v) ==
  (8 * UlpOne * Max(Abs(v), Unit)) \div DcDenominator(g)

StepResponse ==
  /\ f.family = "OnePole"
  /\ cfg = <<10, 1000>>
  /\ feed = <<Unit, 0>>

\* C6 as stated: in the step response every output is above the one before
\* and at most 1, and the first is gainIn.
C6_StepStrictlyIncreasing ==
  [][ (StepResponse /\ op' = "Process") =>
        /\ f'.y0 > f.y0
        /\ f'.y0 <= Unit
        /\ op = "StartFeed" => ret' = f.a0 ]_vars

\* C6 amended: in the step response no output is below the one before or
\* above 1, the first is gainIn, and an output is above the one before as
\* long as that one is more than ulp(1.0) / gainIn below 1.
C6_StepNonDecreasing ==
  [][ (StepResponse /\ op' = "Process") =>
        /\ f'.y0 >= f.y0
        /\ f'.y0 <= Unit
        /\ op = "StartFeed" => ret' = f.a0
        /\ f.y0 < Unit - (UlpOne * Unit) \div f.a0 => f'.y0 > f.y0 ]_vars

\* The step response at the call whose output repeats the one before.
C6_Witness ==
  /\ StepResponse
  /\ op = "Process"
  /\ Len(hist) = 2
  /\ hist[1][2] = hist[2][2]
  /\ f.y0 > Unit \div 2

====
